---- MODULE Spec2Model ----
(***************************************************************************)
(* State-machine model of the sparta.twitterapi endpoint coroutines.       *)
(* One behaviour is one invocation of one endpoint: the async generator    *)
(* runs from one suspension point (awaiting a response, sleeping, yielding *)
(* to the consumer, awaiting a stream line) to the next.  The server and   *)
(* the consumer are the environment.                                       *)
(***************************************************************************)
EXTENDS Integers, Sequences, FiniteSets, TLC

VARIABLES
    op,         \* the endpoint function that was called
    args,       \* the caller's arguments
    pc,         \* where the coroutine is suspended
    params,     \* the `params` dict handed to session.get
    requests,   \* history: every HTTP request issued (its params)
    responses,  \* history: every HTTP response received
    yielded,    \* history: every record handed to the consumer
    tweets,     \* history: every TweetResponse handed to the consumer
    pending,    \* items of the current page not yet yielded
    tracker,    \* RateLimiter.remaining / RateLimiter.reset_time
    sleeping,   \* what the coroutine sleeps on while pc = "wait"
    tries,      \* follower.py num_tries_on_not_ok_i
    users,      \* follower.py / user.py local `users`
    lines,      \* history: every line read from a stream connection
    limiters,   \* the RateLimiter objects of concurrently running invocations
    calls       \* history: every call of a RateLimiter method on `limiters`

vars == <<op, args, pc, params, requests, responses, yielded, tweets, pending,
          tracker, sleeping, tries, users, lines, limiters, calls>>

\* ------------------------------------------------------------- bounds
MaxRequests == 3
MaxLines == 3
MaxCalls == 3

PageSizes == {0, 2}
Statuses == {200, 400, 401, 403, 404, 429, 500, 503}
BackfillArgs == {0, 5, 6}
NumTriesArgs == {-1, 0, 1}
GranularityArgs == {"None", "day", "week"}
\* int(time.time()) when a rate-limit wait is computed: before and after the
\* reset time the headers announce.
Nows == {3, 9}

\* ------------------------------------------------------------- endpoints
TrackerPaged == {"get_recent_search", "get_retweets", "get_quote_tweets",
                 "get_user_timeline_by_id"}
FollowerOps == {"get_followers_by_id", "get_following_by_id"}
PagedOps == TrackerPaged \cup {"get_full_search"} \cup FollowerOps
CountOps == {"get_recent_search_count", "get_full_search_count"}
UserLookups == {"get_users_by_username", "get_users_by_ids"}
LookupOps == {"get_tweets_by_id"} \cup UserLookups
JobOps == {"create_compliance_job", "list_jobs", "list_job"}
OneShotOps == JobOps \cup {"add_or_delete_rules", "get_usage", "upload_ids",
                           "download_results"}
StreamOps == {"get_stream", "get_tweet_compliance_stream",
              "get_user_compliance_stream"}
ComplianceStreams == StreamOps \ {"get_stream"}
Ops == PagedOps \cup CountOps \cup LookupOps \cup OneShotOps \cup StreamOps
         \cup {"get_rules", "get_trends_by_woeid"}

\* Endpoints that own a RateLimiter.
UsesTracker == TrackerPaged \cup FollowerOps \cup LookupOps
                 \cup {"get_recent_search_count"}
\* Endpoints whose control flow depends on validating the whole response.
Validating == FollowerOps \cup UserLookups \cup CountOps \cup JobOps
                \cup {"get_rules", "get_trends_by_woeid", "add_or_delete_rules",
                      "get_usage"}

\* Python values of mixed type are tagged pairs <<type, value>>.
None == <<"None", 0>>
PyInt(n) == <<"int", n>>
PyStr(s) == <<"str", s>>
PyDict(s) == <<"dict", s>>
Absent == <<"absent", 0>>
NoMeta == <<"nometa", 0>>

Digits == <<"0", "1", "2", "3", "4", "5", "6", "7", "8", "9">>

\* str(n) for a one-digit n.
str(n) == Digits[n + 1]

\* int(v) for an int or a one-digit decimal string.
int(v) ==
    IF v[1] = "int" THEN v
    ELSE PyInt(CHOOSE n \in 0 .. 9 : str(n) = v[2])

\* Python truthiness of an Optional[int] argument.
Truthy(v) == v[1] = "int" /\ v[2] # 0

NoArgs == [backfill |-> None, raise503 |-> FALSE, raiseval |-> FALSE,
           numtries |-> -1, granularity |-> "None"]

\* The arguments a caller may pass (defaults included).
ArgsOf(o) ==
    IF o = "get_stream"
      THEN {[NoArgs EXCEPT !.backfill = PyInt(b)] : b \in BackfillArgs}
    ELSE IF o \in ComplianceStreams
      THEN {[NoArgs EXCEPT !.backfill = b] :
                b \in {None} \cup {PyInt(b) : b \in BackfillArgs}}
    ELSE IF o \in FollowerOps
      THEN {[NoArgs EXCEPT !.raise503 = r, !.raiseval = v, !.numtries = t] :
                r \in BOOLEAN, v \in BOOLEAN, t \in NumTriesArgs}
    ELSE IF o \in CountOps
      THEN {[NoArgs EXCEPT !.granularity = g] : g \in GranularityArgs}
    ELSE {NoArgs}

\* ------------------------------------------------------------- responses
Headers == {[remaining |-> Absent, reset |-> Absent],
            [remaining |-> PyStr("0"), reset |-> PyStr("7")]}

\* A response with status s and an empty body.
Reply(s) ==
    [status |-> s, n |-> 0, next |-> Absent, valid |-> TRUE, json |-> TRUE,
     bad |-> 0, includes |-> Absent]

\* The server's pagination token on its k-th response: consecutive pages
\* carry different tokens.
TokenOf(k) == IF k % 2 = 1 THEN "A" ELSE "B"

\* Endpoints that build a TweetResponse from every item of a page.
TweetOps == {"get_tweets_by_id", "get_recent_search", "get_full_search",
             "get_quote_tweets", "get_user_timeline_by_id"}

\* The JSON objects of response (or stream line) k: member i >= 1 is the i-th
\* item of "data", member 0 the "includes" object.
Member(k, i) == PyDict(<<k, i>>)

\* {}
EmptyDict == PyDict(<<0, 0>>)

\* A JSON array.
PyList == <<"list", 0>>

\* What the server may answer as its k-th response to endpoint o.  A success
\* carries n items and a meta object with or without next_token (or no meta at
\* all); `valid` is whether the body passes the endpoint's response model,
\* `bad` the position of an item that fails the item model (0: none), `json`
\* whether the body of an error response is JSON.
Responses(o, k) ==
    {Reply(s) : s \in Statuses \ {200}}
    \cup {[Reply(200) EXCEPT !.n = n, !.next = t] :
            n \in PageSizes, t \in {NoMeta, Absent, PyStr(TokenOf(k))}}
    \cup (IF o \in Validating
            THEN {[Reply(200) EXCEPT !.n = 2, !.next = t, !.valid = FALSE] :
                    t \in {Absent, PyStr(TokenOf(k))}}
            ELSE {})
    \cup (IF o \in FollowerOps
            THEN {[Reply(503) EXCEPT !.json = FALSE]}
            ELSE {})
    \cup (IF o \in TweetOps
            THEN {[Reply(200) EXCEPT !.n = 2, !.next = t, !.includes = inc] :
                    t \in {Absent, PyStr(TokenOf(k))},
                    inc \in {Member(k, 0), None}}
            ELSE {})
    \cup (IF o \in FollowerOps \cup {"get_retweets"}
            THEN {[Reply(200) EXCEPT !.n = 2, !.next = t, !.bad = b,
                                             !.valid = FALSE] :
                    b \in {1, 2}, t \in {Absent, PyStr(TokenOf(k))}}
            ELSE {})

\* response.ok taken to hold for every status the server sends.
OkAny(r) == r.status < 600

\* response.ok
Ok(r) == r.status < 400

\* The 400 check written against another status.
BadRequestOn404(r) == r.status = 404

\* if response.status == 400: log; raise Exception
BadRequest(r) == r.status = 400

\* The items of the k-th response, in server order.
Items(k, n) == [i \in 1 .. n |-> <<k, i>>]

\* ------------------------------------------------------------- RateLimiter
\* A missing x-rate-limit-remaining header read as "no request left".
MissingAsZero(h) ==
    [remaining |-> IF h.remaining = Absent THEN PyInt(0) ELSE int(h.remaining),
     reset_time |-> IF h.reset = Absent THEN PyInt(0) ELSE int(h.reset)]

\* A missing header leaving the attribute unset instead of defaulted.
MissingAsNone(h) ==
    [remaining |-> IF h.remaining = Absent THEN None ELSE int(h.remaining),
     reset_time |-> IF h.reset = Absent THEN None ELSE int(h.reset)]

\* RateLimiter.update_limits
update_limits(h) ==
    [remaining |-> int(IF h.remaining = Absent THEN PyInt(1) ELSE h.remaining),
     reset_time |-> int(IF h.reset = Absent THEN PyInt(0) ELSE h.reset)]

\* should_wait answering yes unless requests are known to be left.
WaitUnlessPositive(t) == ~(t.remaining[1] = "int" /\ t.remaining[2] > 0)

\* RateLimiter.should_wait
should_wait(t) == t.remaining = PyInt(0)

\* RateLimiter.__init__
NewRateLimiter == [remaining |-> None, reset_time |-> None]

\* Two invocations running concurrently, each with the RateLimiter its body
\* constructs.
Owners == {1, 2}

\* ------------------------------------------------------------- request loop
NoSleep == <<"none", 0>>

\* session.get(url, params=p): the query string is built from p; a value that
\* is not str/int/float is rejected (TypeError) before anything is sent.
Issue(p) ==
    /\ params' = p
    /\ IF p.cursor[1] = "dict"
         THEN pc' = "raised" /\ requests' = requests
         ELSE /\ Len(requests) < MaxRequests
              /\ requests' = Append(requests, [params |-> p,
                                                nyield |-> Len(yielded)])
              /\ pc' = "request"

\* An exception leaves the generator.
Raise == pc' = "raised" /\ UNCHANGED <<params, requests>>

\* The generator returns: end of the sequence.
Return == pc' = "done" /\ UNCHANGED <<params, requests>>

\* An error response ending the iteration instead of being waited out.
GiveUp(secs) ==
    /\ pc' = "done"
    /\ sleeping' = sleeping
    /\ UNCHANGED <<params, requests>>

\* await asyncio.sleep(secs); continue
Sleep(secs) ==
    /\ pc' = "wait"
    /\ sleeping' = <<"sleep", secs>>
    /\ UNCHANGED <<params, requests>>

\* A 429 raised to the caller instead of waited out.
RaiseOnLimit(t) == Raise /\ sleeping' = sleeping

\* The wait computed without the one-second floor.
ResetMinusNow(reset_time, now) == reset_time - now

\* The wait computed with a floor of zero seconds.
FloorZero(reset_time, now) ==
    IF reset_time - now > 0 THEN reset_time - now ELSE 0

\* wait_time = max(self.reset_time - int(time.time()), 1)
wait_time(reset_time, now) ==
    IF reset_time - now > 1 THEN reset_time - now ELSE 1

\* await rate_limiter.wait_for_limit_reset(); continue
wait_for_limit_reset(t) ==
    IF t.reset_time = None
      THEN sleeping' = NoSleep /\ Issue(params)
      ELSE \E now \in Nows :
             /\ pc' = "wait"
             /\ sleeping' = <<"limit_reset", wait_time(t.reset_time[2], now)>>
             /\ UNCHANGED <<params, requests>>

\* The pagination step following a next token in the lookups too.
AfterPageLookupsPaginate(o, r) ==
    IF r.next[1] = "str"
      THEN [act |-> "loop", cursor |-> r.next]
      ELSE [act |-> "done", cursor |-> Absent]

\* The pagination step reading meta["next_token"] without testing for it: a
\* page without next token raises.
AfterPageTokenRequired(o, r) ==
    IF r.next[1] = "str"
      THEN [act |-> "loop", cursor |-> r.next]
      ELSE [act |-> "raise", cursor |-> Absent]

\* The pagination step after the items of response r have been yielded:
\* what the endpoint does with response_json["meta"].
AfterPage(o, r) ==
    IF o = "get_quote_tweets"
      THEN IF r.next[1] = "str"
             THEN [act |-> "loop", cursor |-> PyDict(r.next[2])]
             ELSE [act |-> "done", cursor |-> Absent]
    ELSE IF o \in CountOps
      THEN IF r.next[1] = "str"
             THEN [act |-> "loop", cursor |-> r.next]
             ELSE [act |-> "done", cursor |-> Absent]
    ELSE IF o \in LookupOps
      THEN [act |-> "done", cursor |-> Absent]
    ELSE IF r.next = NoMeta
      THEN [act |-> "raise", cursor |-> Absent]
    ELSE IF r.next[1] = "str"
      THEN [act |-> "loop", cursor |-> r.next]
    ELSE [act |-> "done", cursor |-> Absent]

\* The pagination step consulting should_wait() before the next page: with no
\* request left the endpoint waits instead of issuing the request.
AdvanceUnlessShouldWait(r) ==
    LET a == AfterPage(op, r)
    IN  CASE a.act = "raise" -> Raise
          [] a.act = "done" -> Return
          [] a.act = "loop" ->
               IF should_wait(tracker)
                 THEN /\ pc' = "wait"
                      /\ params' = [params EXCEPT !.cursor = a.cursor]
                      /\ requests' = requests
                 ELSE Issue([params EXCEPT !.cursor = a.cursor])

Advance(r) ==
    LET a == AfterPage(op, r)
    IN  CASE a.act = "raise" -> Raise
          [] a.act = "done" -> Return
          [] a.act = "loop" -> Issue([params EXCEPT !.cursor = a.cursor])

\* d.get(key, default)
get(v, default) == IF v = Absent THEN default ELSE v

\* pydantic: a Dict[str, Any] field takes a mapping and nothing else.
IsDict(v) == v[1] = "dict"

\* TweetResponse with its two fields filled from each other's argument.
TweetResponseSwapped(tweet, includes) == [tweet |-> includes, includes |-> tweet]

\* TweetResponse(tweet=tweet, includes=includes)
TweetResponse(tweet, includes) == [tweet |-> tweet, includes |-> includes]

\* The construction raises a ValidationError.
TweetResponseRaises(tweet, includes) == ~IsDict(tweet) \/ ~IsDict(includes)

\* `yield User.model_validate(user)` raises on an item that fails the model,
\* `yield TweetResponse(tweet=tweet, includes=response_json.get("includes", {}))`
\* when a field is not a mapping.
YieldRaises(o, item, r) ==
    \/ o = "get_retweets" /\ r.bad = item[2]
    \/ /\ o \in TweetOps
       /\ TweetResponseRaises(Member(item[1], item[2]),
                              get(r.includes, EmptyDict))

\* for item in items: yield item  -- up to the first suspension.
Deliver(items, r) ==
    IF items = <<>>
      THEN Advance(r) /\ UNCHANGED <<yielded, tweets, pending>>
    ELSE IF YieldRaises(op, Head(items), r)
      THEN Raise /\ UNCHANGED <<yielded, tweets, pending>>
    ELSE /\ yielded' = Append(yielded, Head(items))
         /\ tweets' = IF op \in TweetOps
                        THEN Append(tweets,
                                    TweetResponse(Member(Head(items)[1],
                                                         Head(items)[2]),
                                                  get(r.includes, EmptyDict)))
                        ELSE tweets
         /\ pending' = Tail(items)
         /\ pc' = "yield"
         /\ UNCHANGED <<params, requests>>

Receive(r, h) ==
    responses' = Append(responses, [resp |-> r, headers |-> h,
                                    nyield |-> Len(yielded)])

LastResponse == responses[Len(responses)].resp

\* ------------------------------------------------------------- actions
Init ==
    /\ op \in Ops
    /\ args \in ArgsOf(op)
    /\ pc = "start"
    /\ params = [cursor |-> Absent, backfill |-> Absent]
    /\ requests = <<>>
    /\ responses = <<>>
    /\ yielded = <<>>
    /\ tweets = <<>>
    /\ pending = <<>>
    /\ tracker = NewRateLimiter
    /\ sleeping = NoSleep
    /\ tries = 0
    /\ users = [bound |-> FALSE, page |-> 0, n |-> 0]
    /\ lines = <<>>
    /\ limiters = [i \in Owners |-> [tracker |-> NewRateLimiter,
                                     sleeping |-> NoSleep]]
    /\ calls = <<>>

\* The compliance streams never sending backfill_minutes.
InitialParamsNoBackfill(o, a) ==
    [cursor |-> Absent,
     backfill |-> IF o = "get_stream" THEN PyStr(str(a.backfill[2])) ELSE Absent]

\* The query parameters with backfill_minutes capped at five minutes.
InitialParamsCapped(o, a) ==
    LET capped == IF a.backfill[2] > 5 THEN 5 ELSE a.backfill[2]
    IN  [cursor |-> Absent,
         backfill |-> IF o = "get_stream" THEN PyStr(str(capped))
                      ELSE IF o \in ComplianceStreams /\ Truthy(a.backfill)
                        THEN PyInt(capped)
                      ELSE Absent]

\* The query parameters built before the loop.
InitialParams(o, a) ==
    [cursor |-> Absent,
     backfill |-> IF o = "get_stream" THEN PyStr(str(a.backfill[2]))
                  ELSE IF o \in ComplianceStreams /\ Truthy(a.backfill)
                    THEN a.backfill
                  ELSE Absent]

\* if granularity not in ["minute", "hour", "day"]: raise
GranularityOk(g) == g \in {"minute", "hour", "day"}

\* The consumer's first __anext__: the body runs up to the first request.
Start ==
    /\ pc = "start"
    /\ IF op \in CountOps /\ ~GranularityOk(args.granularity)
         THEN Raise /\ tries' = tries
         ELSE /\ Issue(InitialParams(op, args))
              /\ tries' = IF op \in FollowerOps THEN args.numtries + 1 ELSE tries
    /\ UNCHANGED <<limiters, calls, op, args, responses, yielded, tweets, pending, tracker, sleeping,
                   users, lines>>

\* get_recent_search, get_retweets, get_quote_tweets, get_user_timeline_by_id
RespondTrackerPaged ==
    /\ pc = "request"
    /\ op \in TrackerPaged
    /\ \E r \in Responses(op, Len(responses) + 1), h \in Headers :
        /\ Receive(r, h)
        /\ IF BadRequest(r)
             THEN Raise /\ UNCHANGED <<tracker, sleeping, yielded, tweets, pending>>
           ELSE /\ tracker' = update_limits(h)
                /\ IF r.status = 429
                     THEN wait_for_limit_reset(tracker')
                          /\ UNCHANGED <<yielded, tweets, pending>>
                   ELSE IF ~Ok(r)
                     THEN Sleep(10) /\ UNCHANGED <<yielded, tweets, pending>>
                   ELSE Deliver(Items(Len(responses'), r.n), r)
                        /\ sleeping' = sleeping
    /\ UNCHANGED <<limiters, calls, op, args, tries, users, lines>>

\* get_full_search
RespondFullSearch ==
    /\ pc = "request"
    /\ op = "get_full_search"
    /\ \E r \in Responses(op, Len(responses) + 1), h \in Headers :
        /\ Receive(r, h)
        /\ IF BadRequest(r)
             THEN Raise /\ UNCHANGED <<sleeping, yielded, tweets, pending>>
           ELSE IF r.status = 429
             THEN Sleep(5) /\ UNCHANGED <<yielded, tweets, pending>>
           ELSE IF ~Ok(r)
             THEN Sleep(5) /\ UNCHANGED <<yielded, tweets, pending>>
           ELSE Deliver(Items(Len(responses'), r.n), r) /\ sleeping' = sleeping
    /\ UNCHANGED <<limiters, calls, op, args, tracker, tries, users, lines>>

\* The follower endpoints raising at once on 400 only.
FollowerFatalOnly400 == {400}

\* The statuses get_followers_by_id / get_following_by_id raise on at once.
FollowerFatal == {400, 401, 402, 403, 404}

\* The retry counter dropping to 0 on the first counted response.
TriesExhausted(t) == 0

\* The counter left as it is by a non-OK response.
TriesNotCounted(t) == t

\* if num_tries_on_not_ok_i > 0: num_tries_on_not_ok_i -= 1
TriesAfterNotOk(t) == IF t > 0 THEN t - 1 ELSE t

\* if num_tries_on_not_ok_i < 0 or num_tries_on_not_ok_i > 0: sleep; continue
RetryNotOk(t) == t < 0 \/ t > 0

\* try: users = Response.model_validate(response_json) except: log
\* -- the local `users` keeps its previous binding when validation fails.
UsersAfterValidate(u, r, k) ==
    IF r.valid THEN [bound |-> TRUE, page |-> k, n |-> r.n] ELSE u

\* RespondFollowers with a 429 taking a try from the counter as the other
\* non-OK responses do.
RespondFollowers429Counted ==
    /\ pc = "request"
    /\ op \in FollowerOps
    /\ \E r \in Responses(op, Len(responses) + 1), h \in Headers :
        /\ Receive(r, h)
        /\ IF r.status \in FollowerFatal
             THEN Raise /\ UNCHANGED <<tracker, sleeping, yielded, tweets, pending,
                                       tries, users>>
           ELSE /\ tracker' = update_limits(h)
                /\ IF r.status = 429
                     THEN wait_for_limit_reset(tracker')
                          /\ tries' = TriesAfterNotOk(tries)
                          /\ UNCHANGED <<yielded, tweets, pending, users>>
                   ELSE IF ~r.json
                     THEN Raise /\ UNCHANGED <<sleeping, yielded, tweets, pending,
                                               tries, users>>
                   ELSE IF ~Ok(r)
                     THEN IF r.status = 503 /\ args.raise503
                            THEN Raise /\ UNCHANGED <<sleeping, yielded, tweets,
                                                      pending, tries, users>>
                            ELSE /\ tries' = TriesAfterNotOk(tries)
                                 /\ IF RetryNotOk(tries')
                                      THEN Sleep(10)
                                      ELSE Return /\ sleeping' = sleeping
                                 /\ UNCHANGED <<yielded, tweets, pending, users>>
                   ELSE IF ~r.valid /\ args.raiseval
                     THEN Raise /\ UNCHANGED <<sleeping, yielded, tweets, pending,
                                               tries, users>>
                   ELSE /\ users' = UsersAfterValidate(users, r, Len(responses'))
                        /\ IF ~users'.bound \/ users'.n = 0
                             THEN Raise /\ UNCHANGED <<yielded, tweets, pending>>
                             ELSE Deliver(Items(users'.page, users'.n), r)
                        /\ UNCHANGED <<sleeping, tries>>
    /\ UNCHANGED <<limiters, calls, op, args, lines>>

\* get_followers_by_id, get_following_by_id
RespondFollowers ==
    /\ pc = "request"
    /\ op \in FollowerOps
    /\ \E r \in Responses(op, Len(responses) + 1), h \in Headers :
        /\ Receive(r, h)
        /\ IF r.status \in FollowerFatal
             THEN Raise /\ UNCHANGED <<tracker, sleeping, yielded, tweets, pending,
                                       tries, users>>
           ELSE /\ tracker' = update_limits(h)
                /\ IF r.status = 429
                     THEN wait_for_limit_reset(tracker')
                          /\ UNCHANGED <<yielded, tweets, pending, tries, users>>
                   ELSE IF ~r.json
                     THEN Raise /\ UNCHANGED <<sleeping, yielded, tweets, pending,
                                               tries, users>>
                   ELSE IF ~Ok(r)
                     THEN IF r.status = 503 /\ args.raise503
                            THEN Raise /\ UNCHANGED <<sleeping, yielded, tweets,
                                                      pending, tries, users>>
                            ELSE /\ tries' = TriesAfterNotOk(tries)
                                 /\ IF RetryNotOk(tries')
                                      THEN Sleep(10)
                                      ELSE Return /\ sleeping' = sleeping
                                 /\ UNCHANGED <<yielded, tweets, pending, users>>
                   ELSE IF ~r.valid /\ args.raiseval
                     THEN Raise /\ UNCHANGED <<sleeping, yielded, tweets, pending,
                                               tries, users>>
                   ELSE /\ users' = UsersAfterValidate(users, r, Len(responses'))
                        /\ IF ~users'.bound \/ users'.n = 0
                             THEN Raise /\ UNCHANGED <<yielded, tweets, pending>>
                             ELSE Deliver(Items(users'.page, users'.n), r)
                        /\ UNCHANGED <<sleeping, tries>>
    /\ UNCHANGED <<limiters, calls, op, args, lines>>

\* get_recent_search_count, get_full_search_count
RespondCount ==
    /\ pc = "request"
    /\ op \in CountOps
    /\ \E r \in Responses(op, Len(responses) + 1), h \in Headers :
        /\ Receive(r, h)
        /\ IF BadRequest(r)
             THEN Raise /\ UNCHANGED <<tracker, sleeping, yielded, tweets, pending>>
           ELSE /\ tracker' = IF op \in UsesTracker THEN update_limits(h)
                              ELSE tracker
                /\ IF r.status = 429
                     THEN (IF op \in UsesTracker
                             THEN wait_for_limit_reset(tracker')
                             ELSE Sleep(5))
                          /\ UNCHANGED <<yielded, tweets, pending>>
                   ELSE IF ~Ok(r)
                     THEN Sleep(IF op \in UsesTracker THEN 10 ELSE 5)
                          /\ UNCHANGED <<yielded, tweets, pending>>
                   ELSE IF ~r.valid
                     THEN Raise /\ UNCHANGED <<sleeping, yielded, tweets, pending>>
                   ELSE Deliver(Items(Len(responses'), r.n), r)
                        /\ sleeping' = sleeping
    /\ UNCHANGED <<limiters, calls, op, args, tries, users, lines>>

\* get_tweets_by_id, get_users_by_username, get_users_by_ids
RespondLookup ==
    /\ pc = "request"
    /\ op \in LookupOps
    /\ \E r \in Responses(op, Len(responses) + 1), h \in Headers :
        /\ Receive(r, h)
        /\ tracker' = update_limits(h)
        /\ IF r.status = 429
             THEN wait_for_limit_reset(tracker')
                  /\ UNCHANGED <<yielded, tweets, pending, users>>
           ELSE IF ~Ok(r)
             THEN Raise /\ UNCHANGED <<sleeping, yielded, tweets, pending, users>>
           ELSE IF op = "get_tweets_by_id"
             THEN Deliver(Items(Len(responses'), r.n), r)
                  /\ UNCHANGED <<sleeping, users>>
           ELSE /\ users' = UsersAfterValidate(users, r, Len(responses'))
                /\ IF ~users'.bound \/ users'.n = 0
                     THEN Raise /\ UNCHANGED <<yielded, tweets, pending>>
                     ELSE Deliver(Items(users'.page, users'.n), r)
                /\ sleeping' = sleeping
    /\ UNCHANGED <<limiters, calls, op, args, tries, lines>>

\* get_rules treating a response without data as an error, as the lookups do.
RespondRulesEmptyRaises ==
    /\ pc = "request"
    /\ op = "get_rules"
    /\ \E r \in Responses(op, Len(responses) + 1), h \in Headers :
        /\ Receive(r, h)
        /\ IF ~Ok(r) \/ ~r.valid \/ r.next = NoMeta \/ r.n = 0
             THEN Raise /\ UNCHANGED <<yielded, tweets, pending>>
           ELSE Deliver(Items(Len(responses'), r.n), r)
    /\ UNCHANGED <<limiters, calls, op, args, tracker, sleeping, tries, users, lines>>

\* get_rules
RespondRules ==
    /\ pc = "request"
    /\ op = "get_rules"
    /\ \E r \in Responses(op, Len(responses) + 1), h \in Headers :
        /\ Receive(r, h)
        /\ IF ~Ok(r) \/ ~r.valid \/ r.next = NoMeta
             THEN Raise /\ UNCHANGED <<yielded, tweets, pending>>
           ELSE IF r.n = 0
             THEN Return /\ UNCHANGED <<yielded, tweets, pending>>
           ELSE Deliver(Items(Len(responses'), r.n), r)
    /\ UNCHANGED <<limiters, calls, op, args, tracker, sleeping, tries, users, lines>>

\* get_trends_by_woeid: returns the list of trends at once.
RespondTrends ==
    /\ pc = "request"
    /\ op = "get_trends_by_woeid"
    /\ \E r \in Responses(op, Len(responses) + 1), h \in Headers :
        /\ Receive(r, h)
        /\ IF BadRequest(r)
             THEN Raise /\ UNCHANGED <<sleeping, yielded, tweets>>
           ELSE IF r.status = 429
             THEN Sleep(900) /\ UNCHANGED <<yielded, tweets>>
           ELSE IF ~Ok(r)
             THEN Sleep(10) /\ UNCHANGED <<yielded, tweets>>
           ELSE IF ~r.valid \/ r.n = 0
             THEN Raise /\ UNCHANGED <<sleeping, yielded, tweets>>
           ELSE /\ yielded' = yielded \o Items(Len(responses'), r.n)
                /\ tweets' = tweets
                /\ Return
                /\ sleeping' = sleeping
    /\ UNCHANGED <<limiters, calls, op, args, pending, tracker, tries, users, lines>>

\* add_or_delete_rules, get_usage, create_compliance_job, list_jobs, list_job,
\* upload_ids, download_results: one request, one returned value.
RespondOneShot ==
    /\ pc = "request"
    /\ op \in OneShotOps
    /\ \E r \in Responses(op, Len(responses) + 1), h \in Headers,
          written \in BOOLEAN :
        /\ Receive(r, h)
        /\ IF ~Ok(r)
             THEN Raise /\ UNCHANGED <<yielded, tweets>>
           ELSE IF op \in Validating /\ ~r.valid
             THEN Raise /\ UNCHANGED <<yielded, tweets>>
           ELSE IF op = "download_results" /\ ~written
             THEN Raise /\ UNCHANGED <<yielded, tweets>>
           ELSE /\ yielded' = Append(yielded, <<Len(responses'), 0>>)
                /\ tweets' = tweets
                /\ Return
    /\ UNCHANGED <<limiters, calls, op, args, pending, tracker, sleeping, tries, users, lines>>

\* What readline() may return on an open stream connection: b"" (the server
\* closed the connection), b"\r\n" (keep-alive), or a non-empty line that is
\* not JSON, JSON but not an object, a JSON string literal holding an encoded
\* event, or a JSON object: one that conforms to the endpoint's response
\* model, one that does not, and one whose "data" member is not a mapping.
LineKinds == {"eof", "keepalive", "notjson", "nonobject", "string",
              "object_ok", "object_drift", "object_baddata", "object_nodata"}

JsonObjects == {"object_ok", "object_drift", "object_baddata",
                "object_nodata"}

\* The "data" member of line i of kind `kind`, a JSON object: a mapping, an
\* array, or missing (an object with neither "data" nor "includes", such as
\* an error notice).
LineData(kind, i) ==
    IF kind \in {"object_ok", "object_drift"} THEN Member(i, 1)
    ELSE IF kind = "object_baddata" THEN PyList
    ELSE Absent

\* The "includes" member of line i: only a conforming event carries one.
LineIncludes(kind, i) == IF kind = "object_ok" THEN Member(i, 0) ELSE Absent

\* TweetResponse(tweet=json_line.get("data", {}),
\*               includes=json_line.get("includes", {}))
LineTweet(kind, i) ==
    TweetResponse(get(LineData(kind, i), EmptyDict),
                  get(LineIncludes(kind, i), EmptyDict))

\* get_stream yielding only after the line passed schema validation.
LineYieldsValidatedOnly(o, kind) ==
    IF o = "get_stream" THEN kind = "object_ok" ELSE kind = "string"

\* Every stream yielding whatever json.loads returned.
LineYieldsRawJson(o, kind) ==
    kind \in JsonObjects \cup {"nonobject", "string"}

\* Whether the body of `try: json_line = json.loads(line) ...` reaches its
\* yield.  get_stream builds TweetResponse(tweet=json_line.get("data", {}), ..)
\* from a parsed object; the compliance streams hand the parsed value to
\* model_validate_json, which accepts str/bytes only.
LineYields(o, kind) ==
    IF o = "get_stream"
      THEN /\ kind \in JsonObjects
           /\ ~TweetResponseRaises(get(LineData(kind, 0), EmptyDict),
                                   get(LineIncludes(kind, 0), EmptyDict))
      ELSE kind = "string"

\* get_stream, get_tweet_compliance_stream, get_user_compliance_stream:
\* the answer to a connection request.
StreamConnect ==
    /\ pc = "request"
    /\ op \in StreamOps
    /\ \E s \in Statuses, h \in Headers :
        /\ Receive(Reply(s), h)
        /\ IF ~Ok(Reply(s)) THEN Raise ELSE pc' = "read" /\ UNCHANGED <<params, requests>>
    /\ UNCHANGED <<limiters, calls, op, args, yielded, tweets, pending, tracker, sleeping, tries,
                   users, lines>>

\* StreamRead with the empty read leaving both loops instead of reconnecting.
StreamReadNoReconnect ==
    /\ pc = "read"
    /\ Len(lines) < MaxLines
    /\ \E kind \in LineKinds :
        /\ lines' = Append(lines, [kind |-> kind, conn |-> Len(requests)])
        /\ IF kind = "eof"
             THEN Return /\ UNCHANGED <<yielded, tweets>>
           ELSE IF kind # "keepalive" /\ LineYields(op, kind)
             THEN /\ yielded' = Append(yielded, Len(lines'))
                  /\ tweets' = IF op = "get_stream"
                                 THEN Append(tweets, LineTweet(kind, Len(lines')))
                                 ELSE tweets
                  /\ pc' = "yield"
                  /\ UNCHANGED <<params, requests>>
           ELSE pc' = "read" /\ UNCHANGED <<params, requests, yielded, tweets>>
    /\ UNCHANGED <<limiters, calls, op, args, responses, pending, tracker, sleeping, tries, users>>

\* StreamRead with the reconnect asking for the full five minutes of backfill
\* instead of repeating the first request.
StreamReadBackfillOnReconnect ==
    /\ pc = "read"
    /\ Len(lines) < MaxLines
    /\ \E kind \in LineKinds :
        /\ lines' = Append(lines, [kind |-> kind, conn |-> Len(requests)])
        /\ IF kind = "eof"
             THEN /\ Issue([params EXCEPT !.backfill = PyStr("5")])
                  /\ UNCHANGED <<yielded, tweets>>
           ELSE IF kind # "keepalive" /\ LineYields(op, kind)
             THEN /\ yielded' = Append(yielded, Len(lines'))
                  /\ tweets' = IF op = "get_stream"
                                 THEN Append(tweets, LineTweet(kind, Len(lines')))
                                 ELSE tweets
                  /\ pc' = "yield"
                  /\ UNCHANGED <<params, requests>>
           ELSE pc' = "read" /\ UNCHANGED <<params, requests, yielded, tweets>>
    /\ UNCHANGED <<limiters, calls, op, args, responses, pending, tracker, sleeping, tries, users>>

\* StreamRead with one reconnect attempt allowed: a second clean close ends
\* the stream.
StreamReadReconnectOnce ==
    /\ pc = "read"
    /\ Len(lines) < MaxLines
    /\ \E kind \in LineKinds :
        /\ lines' = Append(lines, [kind |-> kind, conn |-> Len(requests)])
        /\ IF kind = "eof"
             THEN /\ IF Len(requests) < 2 THEN Issue(params) ELSE Return
                  /\ UNCHANGED <<yielded, tweets>>
           ELSE IF kind # "keepalive" /\ LineYields(op, kind)
             THEN /\ yielded' = Append(yielded, Len(lines'))
                  /\ tweets' = IF op = "get_stream"
                                 THEN Append(tweets, LineTweet(kind, Len(lines')))
                                 ELSE tweets
                  /\ pc' = "yield"
                  /\ UNCHANGED <<params, requests>>
           ELSE pc' = "read" /\ UNCHANGED <<params, requests, yielded, tweets>>
    /\ UNCHANGED <<limiters, calls, op, args, responses, pending, tracker, sleeping, tries, users>>

\* line = await response.content.readline() returns.
StreamRead ==
    /\ pc = "read"
    /\ Len(lines) < MaxLines
    /\ \E kind \in LineKinds :
        /\ lines' = Append(lines, [kind |-> kind, conn |-> Len(requests)])
        /\ IF kind = "eof"
             THEN Issue(params) /\ UNCHANGED <<yielded, tweets>>
           ELSE IF kind # "keepalive" /\ LineYields(op, kind)
             THEN /\ yielded' = Append(yielded, Len(lines'))
                  /\ tweets' = IF op = "get_stream"
                                 THEN Append(tweets, LineTweet(kind, Len(lines')))
                                 ELSE tweets
                  /\ pc' = "yield"
                  /\ UNCHANGED <<params, requests>>
           ELSE pc' = "read" /\ UNCHANGED <<params, requests, yielded, tweets>>
    /\ UNCHANGED <<limiters, calls, op, args, responses, pending, tracker, sleeping, tries, users>>

\* line = await response.content.readline() raises (connection reset,
\* payload error): the call is outside every try block.
StreamReadError ==
    /\ pc = "read"
    /\ Len(lines) < MaxLines
    /\ lines' = Append(lines, [kind |-> "io_error", conn |-> Len(requests)])
    /\ Raise
    /\ UNCHANGED <<limiters, calls, op, args, responses, yielded, tweets, pending, tracker, sleeping,
                   tries, users>>

\* StreamResume with the validation after the yield unguarded: a line that
\* fails FilteredStreamingTweetResponse ends the session.
StreamResumeValidationRaises ==
    /\ pc = "yield"
    /\ op \in StreamOps
    /\ pc' = IF op = "get_stream" /\ lines[Len(lines)].kind # "object_ok"
               THEN "raised" ELSE "read"
    /\ UNCHANGED <<limiters, calls, op, args, params, requests, responses, yielded, tweets, pending,
                   tracker, sleeping, tries, users, lines>>

\* The consumer asks for the next record of a stream: the code after the
\* yield runs (get_stream validates the line and logs) and the loop reads on.
StreamResume ==
    /\ pc = "yield"
    /\ op \in StreamOps
    /\ pc' = "read"
    /\ UNCHANGED <<limiters, calls, op, args, params, requests, responses, yielded, tweets, pending,
                   tracker, sleeping, tries, users, lines>>

\* The consumer asks for the next record while the generator is suspended at
\* a yield of a paginated or lookup endpoint.
Resume ==
    /\ pc = "yield"
    /\ op \notin StreamOps
    /\ Deliver(pending, LastResponse)
    /\ UNCHANGED <<limiters, calls, op, args, responses, tracker, sleeping, tries, users, lines>>

\* Wake with the cursor forgotten: the retry restarts from the first page.
WakeFromFirstPage ==
    /\ pc = "wait"
    /\ sleeping' = NoSleep
    /\ Issue([params EXCEPT !.cursor = Absent])
    /\ UNCHANGED <<limiters, calls, op, args, responses, yielded, tweets, pending, tracker, tries,
                   users, lines>>

\* Wake with the sleep surviving a cancellation: the loop goes on.
WakeThoughCancelled ==
    /\ \/ pc = "wait"
       \/ pc = "cancelled" /\ sleeping # NoSleep
    /\ sleeping' = NoSleep
    /\ Issue(params)
    /\ UNCHANGED <<limiters, calls, op, args, responses, yielded, tweets, pending,
                   tracker, tries, users, lines>>

\* The sleep or rate-limit wait ends; `continue` re-enters the loop.
Wake ==
    /\ pc = "wait"
    /\ sleeping' = NoSleep
    /\ Issue(params)
    /\ UNCHANGED <<limiters, calls, op, args, responses, yielded, tweets, pending, tracker, tries,
                   users, lines>>

\* The consumer stops iterating (break / aclose / task cancellation) while
\* the generator is suspended.
Cancel ==
    /\ pc \in {"request", "wait", "yield", "read"}
    /\ pc' = "cancelled"
    /\ UNCHANGED <<limiters, calls, op, args, params, requests, responses, yielded, tweets, pending,
                   tracker, sleeping, tries, users, lines>>

Next ==
    \/ Start
    \/ RespondTrackerPaged
    \/ RespondFullSearch
    \/ RespondFollowers
    \/ RespondCount
    \/ RespondLookup
    \/ RespondRules
    \/ RespondTrends
    \/ RespondOneShot
    \/ StreamConnect
    \/ StreamRead
    \/ StreamReadError
    \/ StreamResume
    \/ Resume
    \/ Wake
    \/ Cancel

Spec == Init /\ [][Next]_vars

\* ------------------------------------------------------------- RateLimiter
\* The RateLimiter methods called directly, in any order and with any
\* headers, on the limiters of two invocations; the endpoint coroutine itself
\* is not stepped.
LimiterHeaders ==
    [remaining : {Absent, PyStr("0"), PyStr("1"), PyStr("3")},
     reset : {Absent, PyStr("0"), PyStr("7")}]

NoHeaders == [remaining |-> Absent, reset |-> Absent]

\* One entry of `calls`: the limiter before and after the call, the headers
\* passed to update_limits, the clock read by wait_for_limit_reset, the
\* seconds it slept and the value should_wait returned.
Call(i, method, h, before, after, now, slept, answer) ==
    [owner |-> i, method |-> method, headers |-> h, before |-> before,
     after |-> after, now |-> now, slept |-> slept, answer |-> answer]

LimiterInit ==
    /\ op = "get_recent_search"
    /\ args = NoArgs
    /\ pc = "start"
    /\ params = [cursor |-> Absent, backfill |-> Absent]
    /\ requests = <<>>
    /\ responses = <<>>
    /\ yielded = <<>>
    /\ tweets = <<>>
    /\ pending = <<>>
    /\ tracker = NewRateLimiter
    /\ sleeping = NoSleep
    /\ tries = 0
    /\ users = [bound |-> FALSE, page |-> 0, n |-> 0]
    /\ lines = <<>>
    /\ limiters = [i \in Owners |-> [tracker |-> NewRateLimiter,
                                     sleeping |-> NoSleep]]
    /\ calls = <<>>

\* update_limits on one limiter object shared by all invocations.
LimiterUpdateShared ==
    /\ Len(calls) < MaxCalls
    /\ \E i \in Owners, h \in LimiterHeaders :
        /\ limiters[i].sleeping = NoSleep
        /\ limiters' = [j \in Owners |->
                          [limiters[j] EXCEPT !.tracker = update_limits(h)]]
        /\ calls' = Append(calls, Call(i, "update_limits", h,
                                       limiters[i].tracker,
                                       limiters'[i].tracker, 0, 0, FALSE))
    /\ UNCHANGED <<op, args, pc, params, requests, responses, yielded, tweets, pending,
                   tracker, sleeping, tries, users, lines>>

\* rate_limiter.update_limits(dict(response.headers))
LimiterUpdate ==
    /\ Len(calls) < MaxCalls
    /\ \E i \in Owners, h \in LimiterHeaders :
        /\ limiters[i].sleeping = NoSleep
        /\ limiters' = [limiters EXCEPT ![i].tracker = update_limits(h)]
        /\ calls' = Append(calls, Call(i, "update_limits", h,
                                       limiters[i].tracker,
                                       limiters'[i].tracker, 0, 0, FALSE))
    /\ UNCHANGED <<op, args, pc, params, requests, responses, yielded, tweets, pending,
                   tracker, sleeping, tries, users, lines>>

\* rate_limiter.should_wait()
LimiterShouldWait ==
    /\ Len(calls) < MaxCalls
    /\ \E i \in Owners :
        /\ limiters[i].sleeping = NoSleep
        /\ calls' = Append(calls, Call(i, "should_wait", NoHeaders,
                                       limiters[i].tracker,
                                       limiters[i].tracker, 0, 0,
                                       should_wait(limiters[i].tracker)))
    /\ UNCHANGED <<op, args, pc, params, requests, responses, yielded, tweets, pending,
                   tracker, sleeping, tries, users, lines, limiters>>

\* await rate_limiter.wait_for_limit_reset(): with no reset time the body of
\* the `if` is skipped and the call returns without suspending.
LimiterWait ==
    /\ Len(calls) < MaxCalls
    /\ \E i \in Owners, now \in Nows :
        LET t == limiters[i].tracker
            secs == IF t.reset_time = None THEN 0
                    ELSE wait_time(t.reset_time[2], now)
        IN  /\ limiters[i].sleeping = NoSleep
            /\ limiters' = [limiters EXCEPT ![i].sleeping =
                               IF t.reset_time = None THEN NoSleep
                               ELSE <<"limit_reset", secs>>]
            /\ calls' = Append(calls, Call(i, "wait_for_limit_reset",
                                           NoHeaders, t, t, now, secs, FALSE))
    /\ UNCHANGED <<op, args, pc, params, requests, responses, yielded, tweets, pending,
                   tracker, sleeping, tries, users, lines>>

\* asyncio.sleep(wait_time) is over: wait_for_limit_reset returns.
LimiterWake ==
    /\ \E i \in Owners :
        /\ limiters[i].sleeping # NoSleep
        /\ limiters' = [limiters EXCEPT ![i].sleeping = NoSleep]
    /\ UNCHANGED <<op, args, pc, params, requests, responses, yielded, tweets, pending,
                   tracker, sleeping, tries, users, lines, calls>>

LimiterNext ==
    \/ LimiterUpdate
    \/ LimiterShouldWait
    \/ LimiterWait
    \/ LimiterWake

LimiterSpec == LimiterInit /\ [][LimiterNext]_vars

\* ------------------------------------------------------------- properties
Status(k) == responses[k].resp.status
NextOf(k) == responses[k].resp.next
Last == Len(responses)

RECURSIVE Served(_)
\* The items of the first k responses, page after page.
Served(k) ==
    IF k = 0 THEN <<>>
    ELSE Served(k - 1) \o Items(k, responses[k].resp.n)

IsPrefix(s, t) == Len(s) <= Len(t) /\ \A i \in 1 .. Len(s) : s[i] = t[i]

\* Every response so far is a well-formed, non-empty success page and every
\* page but the last carries a next token.
CleanPages ==
    /\ \A k \in 1 .. Last :
          /\ Status(k) = 200
          /\ responses[k].resp.valid
          /\ responses[k].resp.bad = 0
          /\ responses[k].resp.n > 0
          /\ NextOf(k) # NoMeta
    /\ \A k \in 1 .. Last - 1 : NextOf(k)[1] = "str"

\* C1: on every paginated endpoint, n success pages of which the first n-1
\* carry a next token and the n-th none are observed by the consumer as the
\* concatenation of the pages' items in page order, with exactly n requests
\* issued and no error.
C1_PagesConcatenated ==
    (op \in PagedOps /\ CleanPages) =>
        /\ pc # "raised"
        /\ IsPrefix(yielded, Served(Last))
        /\ (pc \in {"request", "done"} => yielded = Served(Last))
        /\ (pc = "done" => NextOf(Last) = Absent)
        /\ ((Last > 0 /\ NextOf(Last) = Absent) => Len(requests) = Last)

\* C2: on every paginated endpoint the pagination parameter, once set, is
\* exactly the next_token string of a success response, the request issued
\* after a page with a next_token carries that token, and no request follows
\* a success page without next_token.
C2_CursorIsNextToken ==
    op \in PagedOps =>
        /\ (params.cursor # Absent =>
              \E k \in 1 .. Last : Status(k) = 200 /\ params.cursor = NextOf(k))
        /\ \A k \in 1 .. Last :
              (Status(k) = 200 /\ k < Len(requests)) =>
                  /\ NextOf(k)[1] = "str"
                  /\ requests[k + 1].params.cursor = NextOf(k)

\* Response k was not a success and the endpoint issued another request.
Retried(k) == k <= Last /\ ~Ok(responses[k].resp) /\ k < Len(requests)

\* C3: on every paginated endpoint the request issued after a 429 or another
\* retried non-OK response has the parameters of the request that failed, and
\* no record is yielded between the failed response and the retry.
C3_RetrySameRequest ==
    op \in PagedOps =>
        \A k \in 1 .. Last :
            Retried(k) =>
                /\ requests[k + 1].params = requests[k].params
                /\ requests[k + 1].nyield = responses[k].nyield

\* A paginated endpoint retried a 429 and a 503 while its cursor was set.
C3_Witness ==
    /\ op \in PagedOps
    /\ \E k \in 1 .. Last :
          /\ Status(k) \in {429, 503}
          /\ Retried(k)
          /\ requests[k].params.cursor # Absent
          /\ responses[k].nyield > 0

RECURSIVE LinesOfKind(_, _)
\* The positions among the first k lines read whose kind is in K, in order.
LinesOfKind(k, K) ==
    IF k = 0 THEN <<>>
    ELSE IF lines[k].kind \in K THEN Append(LinesOfKind(k - 1, K), k)
    ELSE LinesOfKind(k - 1, K)

\* The lines of get_stream that are events: JSON objects whose "data", where
\* there is one, is a mapping.
TweetEvents == {"object_ok", "object_drift", "object_nodata"}

\* C4: get_stream hands the consumer exactly the events read, in the order
\* read, each once, across any number of clean closes and reconnects.
C4_StreamEventsInOrder ==
    op = "get_stream" => yielded = LinesOfKind(Len(lines), TweetEvents)

\* get_stream read an event, the connection closed cleanly, and an event was
\* read from the following connection.
C4_Witness ==
    /\ op = "get_stream"
    /\ Len(lines) = 3
    /\ lines[1].kind \in TweetEvents /\ lines[1].conn = 1
    /\ lines[2].kind = "eof"
    /\ lines[3].kind \in TweetEvents /\ lines[3].conn = 2
    /\ Len(yielded) = 2

\* The number a query parameter reads as on the wire.
WireNumber(v) ==
    IF v[1] = "int" THEN v[2]
    ELSE CHOOSE n \in 0 .. 9 : v = PyStr(str(n))

\* The parameter is sent and is not zero.
NonZero(v) == v # Absent /\ WireNumber(v) # 0

\* C5 as stated: on every stream, whatever the caller's backfill argument,
\* every connection request after the first carries a non-zero backfill_minutes.
C5_ReconnectHasBackfill ==
    op \in StreamOps =>
        \A k \in 2 .. Len(requests) : NonZero(requests[k].params.backfill)

\* C5 amended: every connection request after the first carries the caller's
\* backfill argument when that is a non-zero integer; with argument 0
\* get_stream sends backfill_minutes=0, and with 0 or None the compliance
\* streams send no backfill_minutes at all.
C5_ReconnectBackfillIsArgument ==
    op \in StreamOps =>
        \A k \in 2 .. Len(requests) :
            IF Truthy(args.backfill)
              THEN /\ NonZero(requests[k].params.backfill)
                   /\ WireNumber(requests[k].params.backfill) = args.backfill[2]
            ELSE IF op = "get_stream"
              THEN requests[k].params.backfill = PyStr("0")
            ELSE requests[k].params.backfill = Absent

\* A compliance stream called with a non-zero backfill reconnected after a
\* clean close.
C5_Witness ==
    /\ op \in ComplianceStreams
    /\ Truthy(args.backfill)
    /\ Len(requests) >= 2
    /\ \E i \in 1 .. Len(lines) : lines[i].kind = "eof"

LastLine == lines[Len(lines)]

\* C6: on every stream, an exception from the read is followed by a new
\* connection request, as a clean close is.
C6_ReadErrorReconnects ==
    (op \in StreamOps /\ Len(lines) > 0 /\ LastLine.kind = "io_error") =>
        pc \in {"request", "cancelled"} /\ Len(requests) = LastLine.conn + 1

\* C7 as stated: a stream leaves its loop only by the consumer's cancellation.
C7_OnlyCancellationEnds ==
    op \in StreamOps => pc \notin {"raised", "done"}

\* C7 amended: a stream never ends normally, and it raises to the consumer
\* only when a connection or reconnection request is answered with a non-OK
\* status or when the read itself raises; no line that was read ends it.
C7_StreamEndsOnlyByStatusOrReadError ==
    op \in StreamOps =>
        /\ pc # "done"
        /\ pc = "raised" =>
              \/ Last = Len(requests) /\ ~Ok(responses[Last].resp)
              \/ Len(lines) > 0 /\ LastLine.kind = "io_error"
        /\ \A k \in 1 .. Last : ~Ok(responses[k].resp) => (pc = "raised" /\ k = Last)

\* A stream that read lines, reconnected after a clean close and was refused.
C7_Witness ==
    /\ op \in StreamOps
    /\ pc = "raised"
    /\ Last = 2 /\ Status(2) = 429
    /\ Len(lines) >= 2
    /\ lines[1].kind = "notjson"

\* How many times line i was handed to the consumer.
YieldCount(i) == Cardinality({j \in 1 .. Len(yielded) : yielded[j] = i})

Yielded(i) == YieldCount(i) > 0

\* Line i did not end the session: the next read, if any, is made on the same
\* connection, and until then the generator has neither raised nor returned
\* and has issued no further request.
ReadsOn(i) ==
    /\ i < Len(lines) => lines[i + 1].conn = lines[i].conn
    /\ i = Len(lines) => /\ pc \notin {"raised", "done"}
                         /\ Len(requests) = lines[i].conn

\* C8 as stated: on every stream a keep-alive line and a non-empty line that
\* fails JSON parsing or decoding yield nothing and the reader reads on.
C8_BadLinesYieldNothing ==
    op \in StreamOps =>
        \A i \in 1 .. Len(lines) :
            lines[i].kind \in {"keepalive", "notjson", "nonobject",
                               "object_drift", "object_baddata"} =>
                ~Yielded(i) /\ ReadsOn(i)

\* C8 amended: a keep-alive line, a line that is not JSON and a line whose
\* JSON is not an object with a tweet mapping yield nothing; a JSON object
\* that fails schema validation yields nothing on the compliance streams but
\* is yielded once by get_stream; in every case the reader reads on from the
\* same connection.
C8_BadLinesSkippedOrForwarded ==
    op \in StreamOps =>
        \A i \in 1 .. Len(lines) :
            /\ lines[i].kind \in {"keepalive", "notjson", "nonobject",
                                  "object_baddata"} =>
                  ~Yielded(i) /\ ReadsOn(i)
            /\ lines[i].kind \in {"object_drift", "object_nodata"} =>
                  /\ ReadsOn(i)
                  /\ YieldCount(i) = IF op = "get_stream" THEN 1 ELSE 0

\* get_stream read a keep-alive, a line that is not JSON and an object that
\* fails schema validation from one connection, and went on reading.
C8_Witness ==
    /\ op = "get_stream"
    /\ Len(lines) = 3
    /\ lines[1].kind = "keepalive"
    /\ lines[2].kind = "notjson"
    /\ lines[3].kind = "object_drift"
    /\ pc = "read"

\* C9: on the compliance streams every line that is a valid JSON compliance
\* event is yielded exactly once.
C9_ComplianceEventYielded ==
    op \in ComplianceStreams =>
        \A i \in 1 .. Len(lines) :
            lines[i].kind = "object_ok" =>
                YieldCount(i) = 1

\* C10: on every endpoint a 400 response is the last: the call raises, no
\* request is issued and no record is yielded after it.
C10_BadRequestIsFatal ==
    \A k \in 1 .. Last :
        Status(k) = 400 =>
            /\ pc = "raised"
            /\ k = Last
            /\ Len(requests) = k
            /\ Len(yielded) = responses[k].nyield

\* A paginated endpoint got a 400 on its third request, after a page and a
\* retry.
C10_Witness ==
    /\ op \in PagedOps
    /\ Last = 3
    /\ Status(3) = 400
    /\ Len(yielded) > 0

\* ------------------------------------------------------------- C11 .. C20
AuthOrNotFound == {401, 403, 404}

\* Response k ended the call with an exception and nothing was requested
\* after it.
RaisedAt(k) == k = Last /\ Len(requests) = k /\ pc = "raised"

\* Response k did not end the call: the endpoint suspends and, when it
\* requests again, repeats the request that response k answered.
RetriedAfter(k) ==
    /\ k = Last => pc \in {"wait", "request", "cancelled"}
    /\ k < Len(requests) => requests[k + 1].params = requests[k].params

\* The endpoints that raise on every non-OK status other than 429, and the
\* follower endpoints, which raise on 400..404.
RaisesOnAuth == FollowerOps \cup LookupOps \cup OneShotOps \cup StreamOps
                  \cup {"get_rules"}

RateLimitedOps == PagedOps \cup LookupOps \cup StreamOps
                    \cup {"get_rules", "add_or_delete_rules"}

\* The operations that raise on every non-OK status, 429 included.
RaisesOn429 == OneShotOps \cup StreamOps \cup {"get_rules"}

\* C12 as stated: in the paginated endpoints, the lookups, get_rules,
\* add_or_delete_rules and the stream connection requests a 429 response is
\* always retried, never raised and never ends the sequence.
C12_RateLimitAlwaysRetried ==
    op \in RateLimitedOps =>
        \A k \in 1 .. Last : Status(k) = 429 => RetriedAfter(k)

\* C12 amended: after a 429 the paginated endpoints, the count endpoints, the
\* lookups and get_trends_by_woeid suspend and repeat the same request, never
\* raising and never ending the sequence; get_rules, add_or_delete_rules, the
\* other one-request operations and the stream connection requests raise on
\* a 429 and issue no further request.
C12_RateLimitRetriedOrRaised ==
    \A k \in 1 .. Last :
        Status(k) = 429 =>
            IF op \in RaisesOn429 THEN RaisedAt(k) ELSE RetriedAfter(k)

\* get_users_by_ids received a 429 and issued its request again.
C12_Witness ==
    /\ op = "get_users_by_ids"
    /\ Last = 1
    /\ Status(1) = 429
    /\ Len(requests) = 2
    /\ pc = "request"

\* The x-rate-limit-reset value of response k, 0 when the header is missing.
ResetOf(k) ==
    IF responses[k].headers.reset = Absent THEN 0
    ELSE CHOOSE n \in 0 .. 9 : responses[k].headers.reset = PyStr(str(n))

\* The endpoint is suspended because its latest response was a 429.
WaitingAfter429 == Last > 0 /\ Status(Last) = 429 /\ pc = "wait"

\* The suspension is max(reset - now, 1) seconds for the reset time announced
\* by the latest response and a clock reading `now`.
TrackerWait ==
    /\ sleeping[1] = "limit_reset"
    /\ \E now \in Nows :
          sleeping[2] = (IF ResetOf(Last) - now >= 1 THEN ResetOf(Last) - now
                         ELSE 1)

\* C13 as stated: every endpoint that retries after a 429 suspends for the
\* tracker's wait computed from that response's x-rate-limit-reset header,
\* max(reset - now, 1) seconds, not for a fixed interval.
C13_WaitFromResetHeader == WaitingAfter429 => TrackerWait

\* C13 amended: after a 429 the endpoints that own a rate limiter suspend for
\* max(reset - now, 1) seconds computed from that response's headers;
\* get_full_search and get_full_search_count sleep a fixed 5 seconds and
\* get_trends_by_woeid a fixed 900 seconds, whatever the headers say.
C13_WaitFromHeaderOrFixed ==
    WaitingAfter429 =>
        IF op \in UsesTracker THEN TrackerWait
        ELSE IF op = "get_trends_by_woeid" THEN sleeping = <<"sleep", 900>>
        ELSE /\ op \in {"get_full_search", "get_full_search_count"}
             /\ sleeping = <<"sleep", 5>>

\* get_recent_search waits out a 429 whose reset time is already past: the
\* wait is the one-second floor.
C13_Witness ==
    /\ op = "get_recent_search"
    /\ WaitingAfter429
    /\ responses[Last].headers.reset = PyStr("7")
    /\ sleeping = <<"limit_reset", 1>>

ServerErrors == {500, 503}

\* The endpoints that sleep and repeat the request on every non-OK status
\* other than 400 and 429.
RetriesNotOk == TrackerPaged \cup CountOps
                  \cup {"get_full_search", "get_trends_by_woeid"}

\* A follower endpoint after the non-OK response k that it neither raised on
\* nor counted as rate limiting: it repeats the request while the counter
\* num_tries_on_not_ok_i is not 0 and otherwise leaves the loop.
FollowerAfterNotOk(k) ==
    /\ k < Len(requests) => requests[k + 1].params = requests[k].params
    /\ k = Last => IF tries = 0
                     THEN pc = "done" /\ Len(requests) = k
                     ELSE pc \in {"wait", "request", "cancelled"}

\* C14 as stated: every operation, the lookups included, treats a 5xx
\* response as transient and repeats the request instead of raising.
C14_ServerErrorRetried ==
    \A k \in 1 .. Last : Status(k) \in ServerErrors => RetriedAfter(k)

\* C14 amended: a 5xx response is retried (sleep, same request again) by the
\* paginated endpoints other than the follower ones, the count endpoints and
\* get_trends_by_woeid; the lookups, get_rules, the one-request operations
\* and the stream connection requests raise on it at once; the follower
\* endpoints raise on a 503 when raise_exception_on_http_503 is set or when
\* the body is not JSON, and otherwise retry only while their retry counter
\* is not exhausted.
C14_ServerErrorRetriedOrRaised ==
    \A k \in 1 .. Last :
        Status(k) \in ServerErrors =>
            IF op \in RetriesNotOk THEN RetriedAfter(k)
            ELSE IF op \in FollowerOps
              THEN IF \/ ~responses[k].resp.json
                      \/ Status(k) = 503 /\ args.raise503
                     THEN RaisedAt(k)
                     ELSE FollowerAfterNotOk(k)
            ELSE RaisedAt(k)

\* get_tweets_by_id received a 503 and raised.
C14_Witness ==
    /\ op = "get_tweets_by_id"
    /\ Last = 1
    /\ Status(1) = 503
    /\ pc = "raised"

\* What the tracker holds once the headers of response k have been fed to it:
\* a missing remaining count reads as 1, a missing reset time as 0.
FedWith(k) ==
    LET h == responses[k].headers
    IN  [remaining |-> IF h.remaining = Absent THEN PyInt(1)
                       ELSE PyInt(WireNumber(h.remaining)),
         reset_time |-> IF h.reset = Absent THEN PyInt(0)
                        ELSE PyInt(WireNumber(h.reset))]

NeverFed == [remaining |-> None, reset_time |-> None]

\* C15 as stated: whatever the status of a response, its headers have been
\* fed into the rate-limit tracker when the endpoint returns, raises or
\* issues the next request.
C15_HeadersAlwaysFed == Last > 0 => tracker = FedWith(Last)

\* Response k is one the endpoint raises on before it touches the tracker.
RaisedBeforeUpdate(k) ==
    IF op \in FollowerOps THEN Status(k) \in {400, 401, 402, 403, 404}
    ELSE IF op \in LookupOps THEN FALSE
    ELSE Status(k) = 400

\* C15 amended: the endpoints that own a rate limiter feed the headers of
\* every response into it before they return, raise or request again, except
\* for a response they raise on at once (400; 400..404 in the follower
\* endpoints), whose headers are never fed; the other operations have no
\* tracker and feed nothing.
C15_HeadersFedUnlessFatal ==
    IF op \notin UsesTracker \/ Last = 0 THEN tracker = NeverFed
    ELSE IF ~RaisedBeforeUpdate(Last) THEN tracker = FedWith(Last)
    ELSE /\ pc = "raised"
         /\ tracker = IF Last = 1 THEN NeverFed ELSE FedWith(Last - 1)

\* get_recent_search received a 503 without rate-limit headers, fed the
\* defaults into its tracker and sleeps before the retry.
C15_Witness ==
    /\ op = "get_recent_search"
    /\ Last = 1
    /\ Status(1) = 503
    /\ responses[1].headers.remaining = Absent
    /\ tracker = [remaining |-> PyInt(1), reset_time |-> PyInt(0)]
    /\ pc = "wait"

\* The latest response is a success that carries no next token (its meta
\* object has none, or it has no meta object).
EndedAfterLastPage ==
    Last > 0 /\ Status(Last) = 200 /\ NextOf(Last) \in {Absent, NoMeta}

\* Response k of a follower endpoint is counted against the retry counter:
\* not OK, not in the fatal list, not a 429, with a JSON body, and not a 503
\* the caller asked to have raised.
CountedNotOk(k) ==
    /\ ~Ok(responses[k].resp)
    /\ Status(k) \notin {400, 401, 402, 403, 404, 429}
    /\ responses[k].resp.json
    /\ ~(Status(k) = 503 /\ args.raise503)

\* C16 as stated: a paginated iteration ends normally only after a success
\* response without next token; an exhausted retry budget of the follower
\* endpoints raises instead of ending the sequence.
C16_EndsOnlyAfterLastPage ==
    (op \in PagedOps /\ pc = "done") => EndedAfterLastPage

\* C16 amended: a paginated iteration ends normally after a success response
\* without next token, and, in the follower endpoints, also without any
\* error when the retry counter is exhausted: at the counted non-OK response
\* number num_tries_on_not_ok + 1 (the first one when num_tries_on_not_ok is
\* -1 or 0) the loop is left and the sequence just ends.
C16_EndsAfterLastPageOrExhausted ==
    (op \in PagedOps /\ pc = "done") =>
        \/ EndedAfterLastPage
        \/ /\ op \in FollowerOps
           /\ Last > 0
           /\ CountedNotOk(Last)
           /\ tries = 0
           /\ Cardinality({k \in 1 .. Last : CountedNotOk(k)})
                = (IF args.numtries = -1 THEN 1 ELSE args.numtries + 1)

\* get_followers_by_id with num_tries_on_not_ok = 1 received two 503s, the
\* second after one retry, and ended the sequence.
C16_Witness ==
    /\ op = "get_followers_by_id"
    /\ args.numtries = 1
    /\ ~args.raise503
    /\ Last = 2
    /\ Status(1) = 503
    /\ Status(2) = 503
    /\ pc = "done"

\* C17: with num_tries_on_not_ok = -1, the default, the follower endpoints
\* sleep and repeat the request after every counted non-OK response, however
\* many there are, and never stop because of them.
C17_DefaultRetriesWithoutLimit ==
    (op \in FollowerOps /\ args.numtries = -1) =>
        \A k \in 1 .. Last : CountedNotOk(k) => RetriedAfter(k)

\* C18: in the follower endpoints a 503 raises at once, with no further
\* request, when raise_exception_on_http_503 is true, and is never raised
\* but retried after sleeping when it is false.
C18_Http503PolicyIsCallers ==
    op \in FollowerOps =>
        \A k \in 1 .. Last :
            Status(k) = 503 =>
                IF args.raise503 THEN RaisedAt(k) ELSE RetriedAfter(k)

\* The records yielded from page k, in the order they were yielded.
YieldedOf(k) == SelectSeq(yielded, LAMBDA item : item[1] = k)

\* The items of page k that pass the item model, in server order.
ValidItems(k) ==
    SelectSeq(Items(k, responses[k].resp.n),
              LAMBDA item : item[2] # responses[k].resp.bad)

\* The endpoint is done with page k: it has moved on to another request or
\* has stopped.
PageHandled(k) == k < Len(requests) \/ pc \in {"done", "raised"}

\* C19: in get_retweets and the follower endpoints a success page with one
\* item that fails decoding among valid items yields exactly the valid
\* items: the bad item is skipped, the page is not dropped and the sequence
\* is not aborted.
C19_BadItemSkipped ==
    op \in FollowerOps \cup {"get_retweets"} =>
        \A k \in 1 .. Last :
            (Status(k) = 200 /\ responses[k].resp.bad # 0) =>
                /\ ~RaisedAt(k)
                /\ PageHandled(k) => YieldedOf(k) = ValidItems(k)

\* C20: a success response that fails model validation never makes the
\* iteration raise, in the follower endpoints called with
\* raise_exception_on_model_validation_error = false and in the user lookups,
\* on the first page as on a later one.
C20_ValidationFailureNotPropagated ==
    ((op \in FollowerOps /\ ~args.raiseval) \/ op \in UserLookups) =>
        \A k \in 1 .. Last :
            (Status(k) = 200 /\ ~responses[k].resp.valid) => ~RaisedAt(k)

\* ------------------------------------------------------------- C21 .. C30
\* The positions in `calls` of the calls of RateLimiter method m.
CallsOf(m) == {k \in 1 .. Len(calls) : calls[k].method = m}

\* C21: should_wait() returns true if and only if the remaining count is
\* exactly 0; it returns false when the count is greater than 0 and when it
\* is unknown (a tracker no update_limits was called on).
C21_ShouldWaitIffZero ==
    \A k \in CallsOf("should_wait") :
        LET remaining == calls[k].before.remaining
        IN  /\ calls[k].answer <=> (remaining[1] = "int" /\ remaining[2] = 0)
            /\ remaining = None => ~calls[k].answer
            /\ (remaining[1] = "int" /\ remaining[2] > 0) => ~calls[k].answer

\* should_wait was called on a fresh limiter and on one with no request
\* left, and answered yes only the second time.
C21_Witness ==
    /\ Len(calls) = 3
    /\ \E k \in CallsOf("should_wait") :
          calls[k].before.remaining = PyInt(0) /\ calls[k].answer
    /\ \E k \in CallsOf("should_wait") :
          calls[k].before.remaining = None /\ ~calls[k].answer

\* C22: update_limits(headers) sets remaining and reset_time from the two
\* headers; a missing remaining header gives a non-zero remaining, so that
\* should_wait() is false, and a missing reset header gives reset_time 0,
\* whatever the limiter held before.
C22_UpdateLimitsDefaults ==
    \A k \in CallsOf("update_limits") :
        LET h == calls[k].headers
            after == calls[k].after
        IN  /\ h.remaining # Absent =>
                  after.remaining = PyInt(WireNumber(h.remaining))
            /\ h.reset # Absent =>
                  after.reset_time = PyInt(WireNumber(h.reset))
            /\ h.remaining = Absent =>
                  /\ after.remaining[1] = "int"
                  /\ after.remaining[2] # 0
                  /\ ~should_wait(after)
            /\ h.reset = Absent => after.reset_time = PyInt(0)

\* update_limits was called without any rate-limit header on a limiter that
\* held remaining 0 and reset time 7.
C22_Witness ==
    \E k \in CallsOf("update_limits") :
        /\ calls[k].before = [remaining |-> PyInt(0), reset_time |-> PyInt(7)]
        /\ calls[k].headers = NoHeaders
        /\ calls[k].after = [remaining |-> PyInt(1), reset_time |-> PyInt(0)]

\* max(reset_time - now, 1) for wait_for_limit_reset call k on a limiter
\* whose reset time is known.
FlooredWait(k) ==
    LET d == calls[k].before.reset_time[2] - calls[k].now
    IN  IF d >= 1 THEN d ELSE 1

VendorMaxBackfill == 5

\* The backfill_minutes values sent on stream connection requests so far.
BackfillsSent ==
    {requests[k].params.backfill : k \in 1 .. Len(requests)} \ {Absent}

\* C24 as stated: whatever backfill_minutes the caller passes to a stream
\* operation, the value sent on a connection request never exceeds five
\* minutes.
C24_BackfillAtMostFive ==
    op \in StreamOps =>
        \A b \in BackfillsSent : WireNumber(b) <= VendorMaxBackfill

\* C24 amended: a stream connection request carries the caller's
\* backfill_minutes as passed, without any cap: the value sent exceeds five
\* minutes exactly when the caller's argument does.
C24_BackfillSentUncapped ==
    op \in StreamOps =>
        \A b \in BackfillsSent :
            /\ WireNumber(b) = args.backfill[2]
            /\ WireNumber(b) > VendorMaxBackfill
                 <=> args.backfill[2] > VendorMaxBackfill

\* get_tweet_compliance_stream was called with backfill_minutes = 6 and its
\* connection request carries 6.
C24_Witness ==
    /\ op = "get_tweet_compliance_stream"
    /\ args.backfill = PyInt(6)
    /\ Len(requests) >= 1
    /\ requests[1].params.backfill = PyInt(6)

\* C25: when the consumer cancels an operation suspended in
\* wait_for_limit_reset, in an inter-retry sleep or in a stream read, the
\* suspension ends there and the operation terminates: from then on it
\* issues no request and yields no record, and nothing in the retry or
\* stream loops makes it run on.
C25_CancellationEndsOperation ==
    [][/\ (pc # "cancelled" /\ pc' = "cancelled") =>
            /\ pc \in {"request", "wait", "yield", "read"}
            /\ requests' = requests
            /\ yielded' = yielded
       /\ pc = "cancelled" =>
            /\ pc' = "cancelled"
            /\ requests' = requests
            /\ yielded' = yielded
            /\ lines' = lines]_vars

\* get_recent_search was cancelled while suspended in wait_for_limit_reset
\* after a 429.
C25_Witness ==
    /\ op = "get_recent_search"
    /\ pc = "cancelled"
    /\ sleeping[1] = "limit_reset"
    /\ Status(Last) = 429

\* C26: each invocation owns its rate limiter: whatever the interleaving of
\* two running invocations, an update_limits or a wait in one changes neither
\* the remaining/reset_time the other observes nor whether the other is
\* suspended.
C26_LimitersNotShared ==
    [][\A i \in Owners :
          limiters'[i] # limiters[i] =>
              /\ \A j \in Owners \ {i} : limiters'[j] = limiters[j]
              /\ Len(calls') > Len(calls) => calls'[Len(calls')].owner = i]_vars

\* Invocation 1 fed a 429's headers to its limiter and is suspended in
\* wait_for_limit_reset, while invocation 2 asks its own, still fresh,
\* limiter and is told not to wait.
C26_Witness ==
    /\ Len(calls) = 3
    /\ limiters[1].tracker.remaining = PyInt(0)
    /\ limiters[1].sleeping # NoSleep
    /\ limiters[2] = [tracker |-> NewRateLimiter, sleeping |-> NoSleep]
    /\ calls[3].owner = 2
    /\ calls[3].method = "should_wait"
    /\ ~calls[3].answer

\* The "includes" member of the body TweetResponse j was built from, for the
\* paged endpoints.
IncludesOf(j) == responses[yielded[j][1]].resp.includes

\* C27 as stated: every TweetResponse yielded has a tweet and an includes that
\* are not null; tweet is the item taken from "data" and includes is the
\* "includes" object of the response (or line), or {} when it has none.
C27_TweetIsDataItem ==
    /\ op \in TweetOps =>
          /\ Len(tweets) = Len(yielded)
          /\ \A j \in 1 .. Len(tweets) :
                /\ yielded[j][2] >= 1
                /\ tweets[j].tweet = Member(yielded[j][1], yielded[j][2])
                /\ tweets[j].includes = IF IncludesOf(j) = Absent
                                          THEN EmptyDict ELSE IncludesOf(j)
                /\ tweets[j].includes # None
    /\ op = "get_stream" =>
          /\ Len(tweets) = Len(yielded)
          /\ \A j \in 1 .. Len(tweets) :
                /\ tweets[j].tweet = Member(yielded[j], 1)
                /\ tweets[j].includes
                     = IF lines[yielded[j]].kind = "object_ok"
                         THEN Member(yielded[j], 0) ELSE EmptyDict

\* C27 amended: as stated for the paged endpoints; get_stream takes tweet from
\* the line's "data" member, and yields {} as the tweet of a line that has no
\* such member.
C27_TweetIsDataOrEmpty ==
    /\ op \in TweetOps =>
          /\ Len(tweets) = Len(yielded)
          /\ \A j \in 1 .. Len(tweets) :
                /\ yielded[j][2] >= 1
                /\ tweets[j].tweet = Member(yielded[j][1], yielded[j][2])
                /\ tweets[j].includes = IF IncludesOf(j) = Absent
                                          THEN EmptyDict ELSE IncludesOf(j)
                /\ tweets[j].includes # None
    /\ op = "get_stream" =>
          /\ Len(tweets) = Len(yielded)
          /\ \A j \in 1 .. Len(tweets) :
                /\ tweets[j].tweet
                     = IF lines[yielded[j]].kind = "object_nodata"
                         THEN EmptyDict ELSE Member(yielded[j], 1)
                /\ tweets[j].includes
                     = IF lines[yielded[j]].kind = "object_ok"
                         THEN Member(yielded[j], 0) ELSE EmptyDict

\* get_stream yielded a conforming event with its includes and then a
\* TweetResponse for a line that has no "data" member.
C27_Witness ==
    /\ op = "get_stream"
    /\ Len(tweets) = 2
    /\ lines[yielded[1]].kind = "object_ok"
    /\ tweets[1].includes = Member(yielded[1], 0)
    /\ lines[yielded[2]].kind = "object_nodata"
    /\ tweets[2] = TweetResponse(EmptyDict, EmptyDict)

\* C28: the count endpoints raise on a granularity outside {minute, hour, day}
\* before any request and without yielding; get_recent_search_count called
\* without a granularity is accepted and issues its request.
C28_GranularityCheckedWhenGiven ==
    (op \in CountOps /\ pc \notin {"start", "cancelled"}) =>
        IF op = "get_recent_search_count" /\ args.granularity = "None"
          THEN Len(requests) >= 1
          ELSE ~GranularityOk(args.granularity) =>
                  pc = "raised" /\ Len(requests) = 0 /\ yielded = <<>>

\* Every response to get_rules so far is a success with a well-formed body.
RulesAllSuccess ==
    \A k \in 1 .. Last :
        Status(k) = 200 /\ responses[k].resp.valid /\ NextOf(k) # NoMeta

\* The k-th response ends the listing: it has no data or no next_token.
RulesLastPage(k) == responses[k].resp.n = 0 \/ NextOf(k) = Absent

\* C29: with success responses only, get_rules never raises; a first response
\* without data ends it normally with zero rules; otherwise the rules of each
\* page are yielded in order, each next_token is sent as pagination_token of
\* the following request, and the first response with no next_token or no
\* data is the last: no request follows it and the iteration ends normally.
C29_RulesPagedToEnd ==
    (op = "get_rules" /\ RulesAllSuccess) =>
        /\ pc # "raised"
        /\ (Last >= 1 /\ responses[1].resp.n = 0) =>
              pc = "done" /\ yielded = <<>> /\ Len(requests) = 1
        /\ yielded \o pending = Served(Last)
        /\ \A k \in 2 .. Len(requests) :
              /\ ~RulesLastPage(k - 1)
              /\ requests[k].params.cursor = NextOf(k - 1)
        /\ (Last >= 1 /\ RulesLastPage(Last)) =>
              /\ pc \in {"yield", "done", "cancelled"}
              /\ Len(requests) = Last
        /\ pc = "done" =>
              RulesLastPage(Last) /\ pending = <<>> /\ yielded = Served(Last)

\* get_rules yielded the two rules of a first page, followed its token and
\* ended normally on a second page without data.
C29_Witness ==
    /\ op = "get_rules"
    /\ RulesAllSuccess
    /\ Last = 2
    /\ responses[1].resp.n = 2
    /\ responses[2].resp.n = 0
    /\ Len(yielded) = 2
    /\ pc = "done"

\* The number of responses among the first k that the follower endpoints
\* count against num_tries_on_not_ok.
NotOkUpTo(k) == Cardinality({j \in 1 .. k : CountedNotOk(j)})

\* C30: with num_tries_on_not_ok = N >= 0 a follower endpoint issues at most N
\* retry requests for non-OK responses over the whole iteration: each of the
\* first N such responses is followed by a sleep and the same request again,
\* and the (N+1)-th ends the iteration with no further request.
C30_AtMostNRetries ==
    (op \in FollowerOps /\ args.numtries >= 0) =>
        /\ Cardinality({k \in 1 .. Last :
                          CountedNotOk(k) /\ k < Len(requests)})
             <= args.numtries
        /\ \A k \in 1 .. Last :
              CountedNotOk(k) =>
                  IF NotOkUpTo(k) <= args.numtries
                    THEN /\ k < Len(requests) =>
                              requests[k + 1].params = requests[k].params
                         /\ k = Len(requests) =>
                              pc \in {"wait", "cancelled"} /\ sleeping # NoSleep
                    ELSE /\ NotOkUpTo(k) = args.numtries + 1
                         /\ k = Last /\ Len(requests) = k
                         /\ pc = "done"

\* get_followers_by_id with num_tries_on_not_ok = 1 retried after a first 500
\* and ended, with two requests issued, on the second.
C30_Witness ==
    /\ op \in FollowerOps
    /\ args.numtries = 1
    /\ Last = 2
    /\ CountedNotOk(1) /\ CountedNotOk(2)
    /\ Len(requests) = 2
    /\ pc = "done"

\* ------------------------------------------------------------- C31 .. C39
\* Response k is a well-formed success page with no items and no next token.
EmptyLastPage(k) ==
    /\ Status(k) = 200
    /\ responses[k].resp.valid
    /\ responses[k].resp.n = 0
    /\ NextOf(k) = Absent

\* Nothing was yielded and no request was issued after response k.
NothingAfter(k) ==
    /\ k = Last
    /\ Len(requests) = k
    /\ Len(yielded) = responses[k].nyield

\* C31 as stated: in every paginated endpoint a success response with no
\* items and no next token ends the sequence normally: nothing is yielded from
\* it and no error is raised.
C31_EmptyPageEndsNormally ==
    op \in PagedOps =>
        \A k \in 1 .. Last :
            EmptyLastPage(k) => NothingAfter(k) /\ pc = "done"

\* C31 amended: such a response ends the sequence normally in the search,
\* retweet, quote and timeline endpoints; get_followers_by_id and
\* get_following_by_id raise on it (`if not users.data: raise`).  In both
\* cases nothing is yielded from the page and no request follows.
C31_EmptyPageEndsOrRaises ==
    op \in PagedOps =>
        \A k \in 1 .. Last :
            EmptyLastPage(k) =>
                /\ NothingAfter(k)
                /\ pc = IF op \in FollowerOps THEN "raised" ELSE "done"

\* get_followers_by_id yielded a first page of two users, followed its token
\* and raised on a second page without users.
C31_Witness ==
    /\ op = "get_followers_by_id"
    /\ Last = 2
    /\ Status(1) = 200 /\ Len(yielded) = 2
    /\ EmptyLastPage(2)
    /\ pc = "raised"

\* C32 as stated: in get_stream every line that parses to a JSON object yields
\* exactly one TweetResponse, whether or not the line passes
\* FilteredStreamingTweetResponse, and the session reads on.
C32_EveryObjectForwardedOnce ==
    op = "get_stream" =>
        \A i \in 1 .. Len(lines) :
            lines[i].kind \in JsonObjects => YieldCount(i) = 1 /\ ReadsOn(i)

\* C32 amended: a JSON object whose "data" and "includes", where present, are
\* mappings yields exactly one TweetResponse, whether or not it passes
\* FilteredStreamingTweetResponse, and the session reads on; a JSON object
\* whose "data" is not a mapping yields nothing and the session reads on.
C32_ObjectForwardedOnceIfMapping ==
    op = "get_stream" =>
        \A i \in 1 .. Len(lines) :
            lines[i].kind \in JsonObjects =>
                /\ ReadsOn(i)
                /\ YieldCount(i) = IF IsDict(get(LineData(lines[i].kind, i),
                                                 EmptyDict))
                                     THEN 1 ELSE 0

\* get_stream forwarded an object that fails schema validation, went on
\* reading, skipped an object whose "data" is not a mapping and is reading
\* the same connection.
C32_Witness ==
    /\ op = "get_stream"
    /\ Len(lines) = 2
    /\ lines[1].kind = "object_drift"
    /\ lines[2].kind = "object_baddata"
    /\ yielded = <<1>>
    /\ Len(requests) = 1
    /\ pc = "read"

\* C33: on every stream each clean close of the connection (empty read) is
\* followed by a new connection request, however many reconnects came before:
\* the request is issued as the reader leaves the closed connection, and the
\* next line read, if any, comes from that new connection.
C33_CleanCloseReconnects ==
    op \in StreamOps =>
        \A i \in 1 .. Len(lines) :
            lines[i].kind = "eof" =>
                /\ Len(requests) > lines[i].conn
                /\ requests[lines[i].conn + 1].nyield
                     = Cardinality({j \in 1 .. Len(yielded) : yielded[j] < i})
                /\ i < Len(lines) => lines[i + 1].conn = lines[i].conn + 1
                /\ i = Len(lines) =>
                      /\ Len(requests) = lines[i].conn + 1
                      /\ Last = lines[i].conn =>
                            pc \in {"request", "cancelled"}

\* A stream whose first and second connection both closed cleanly has issued
\* its third connection request.
C33_Witness ==
    /\ op \in StreamOps
    /\ Len(lines) = 2
    /\ lines[1].kind = "eof" /\ lines[1].conn = 1
    /\ lines[2].kind = "eof" /\ lines[2].conn = 2
    /\ Len(requests) = 3
    /\ pc = "request"

\* The paginated endpoints that retry without limit.
UnboundedRetryOps == {"get_recent_search", "get_full_search", "get_retweets",
                      "get_user_timeline_by_id"}

\* Response k is a 429 or a 5xx.
Transient(k) == Status(k) \in {429} \cup ServerErrors

\* Response k is a well-formed success page.
GoodPage(k) ==
    /\ Status(k) = 200
    /\ responses[k].resp.valid
    /\ responses[k].resp.bad = 0
    /\ responses[k].resp.includes # None
    /\ NextOf(k) # NoMeta

RECURSIVE ServedOk(_)
\* The items of the success pages among the first k responses, in order: what
\* the run without the error responses serves.
ServedOk(k) ==
    IF k = 0 THEN <<>>
    ELSE IF Status(k) = 200
      THEN ServedOk(k - 1) \o Items(k, responses[k].resp.n)
    ELSE ServedOk(k - 1)

RECURSIVE TokenAfter(_)
\* The next token of the latest success page among the first k responses.
TokenAfter(k) ==
    IF k = 0 THEN Absent
    ELSE IF Status(k) = 200 THEN NextOf(k)
    ELSE TokenAfter(k - 1)

\* C34: in the endpoints that retry without limit, 429 and 5xx responses
\* interleaved with the success pages do not show to the consumer: the call
\* never raises, the records are those of the success pages in page order,
\* every request carries the token of the latest success page, an error
\* response is followed by a wait or a retry, and the iteration ends exactly
\* on the success page without next token.
C34_RetriesTransparent ==
    (op \in UnboundedRetryOps
       /\ \A k \in 1 .. Last : Transient(k) \/ GoodPage(k)) =>
        /\ pc # "raised"
        /\ yielded \o pending = ServedOk(Last)
        /\ \A k \in 1 .. Len(requests) :
              requests[k].params.cursor = TokenAfter(k - 1)
        /\ pc = "done" =>
              /\ GoodPage(Last) /\ NextOf(Last) = Absent
              /\ yielded = ServedOk(Last)
        /\ (Last >= 1 /\ Transient(Last)) =>
              IF Len(requests) = Last
                THEN pc \in {"wait", "cancelled"} /\ sleeping # NoSleep
                ELSE Len(requests) = Last + 1

\* get_recent_search served a first page, was answered 503 and, after the
\* retry, ended on the last page with both pages' records yielded.
C34_Witness ==
    /\ op = "get_recent_search"
    /\ Last = 3
    /\ GoodPage(1) /\ responses[1].resp.n = 2
    /\ Status(2) = 503
    /\ GoodPage(3) /\ responses[3].resp.n = 2
    /\ yielded = ServedOk(3)
    /\ Len(yielded) = 4
    /\ pc = "done"

\* C35: in the follower endpoints every record yielded is an item of the
\* response received last before it was yielded, and no item is yielded
\* twice, also when a page fails validation and validation errors are not
\* raised.
C35_YieldsOnlyLatestPage ==
    op \in FollowerOps =>
        /\ \A j \in 1 .. Len(yielded) :
              \A k \in 1 .. Last :
                  responses[k].nyield < j => yielded[j][1] >= k
        /\ \A i, j \in 1 .. Len(yielded) :
              i # j => yielded[i] # yielded[j]

\* The paginated endpoints that own a RateLimiter.
TrackerPagedOps == TrackerPaged \cup FollowerOps

\* C36: in the paginated endpoints that use the tracker a wait is entered
\* only after a response that is not a success, and the rate-limit wait only
\* after a 429, before any further request; after a success response the
\* endpoint does not wait, also when the tracker says that no request is left.
C36_WaitOnlyAfter429 ==
    (op \in TrackerPagedOps /\ Last >= 1) =>
        /\ sleeping # NoSleep =>
              /\ ~Ok(LastResponse)
              /\ Len(requests) = Last
              /\ sleeping[1] = "limit_reset" => Status(Last) = 429
        /\ pc = "wait" => sleeping # NoSleep
        /\ (Ok(LastResponse) /\ should_wait(tracker)) =>
              pc # "wait" /\ sleeping = NoSleep

\* get_recent_search received a success page whose headers report no request
\* left and has issued the request for the next page.
C36_Witness ==
    /\ op = "get_recent_search"
    /\ Last = 1
    /\ Status(1) = 200
    /\ responses[1].headers.remaining = PyStr("0")
    /\ should_wait(tracker)
    /\ Len(yielded) = 2
    /\ Len(requests) = 2
    /\ pc = "request"

\* C37: every reconnection request of a stream carries the query parameters
\* of the first connection request, which are those built from the arguments
\* before the loop, whatever was read and however many reconnects happened.
C37_ReconnectParamsUnchanged ==
    (op \in StreamOps /\ Len(requests) >= 1) =>
        /\ requests[1].params = InitialParams(op, args)
        /\ \A k \in 2 .. Len(requests) :
              requests[k].params = requests[1].params
        /\ params = requests[1].params

\* get_stream called with backfill_minutes = 6 yielded an event, reconnected
\* after a clean close, reconnected again after a second one, and the third
\* request carries backfill_minutes=6 as the first does.
C37_Witness ==
    /\ op = "get_stream"
    /\ Len(requests) = 3
    /\ Len(lines) = 3
    /\ lines[1].kind = "object_ok"
    /\ lines[2].kind = "eof"
    /\ lines[3].kind = "eof"
    /\ requests[1].params.backfill = PyStr("6")
    /\ requests[3].params.backfill = PyStr("6")

\* C38: the retry counter of the follower endpoints is one budget for the
\* whole iteration: it is num_tries_on_not_ok + 1 less the number of non-OK
\* responses counted so far on any page (never less than 0); a 429 does not
\* lower it, a success does not reset it and nothing raises it.
C38_OneRetryBudget ==
    (op \in FollowerOps /\ pc # "start") =>
        /\ tries = IF args.numtries + 1 > NotOkUpTo(Last)
                     THEN args.numtries + 1 - NotOkUpTo(Last) ELSE 0
        /\ tries <= args.numtries + 1

\* get_following_by_id with num_tries_on_not_ok = 1 spent one try on a 500,
\* waited out a 429 and received a success page: one try is left.
C38_Witness ==
    /\ op = "get_following_by_id"
    /\ args.numtries = 1
    /\ Last = 3
    /\ Status(1) = 500 /\ CountedNotOk(1)
    /\ Status(2) = 429
    /\ Status(3) = 200 /\ Len(yielded) >= 1
    /\ tries = 1

\* The number of 429 responses received so far.
RateLimitedSoFar == Cardinality({k \in 1 .. Last : Status(k) = 429})

\* C39: get_tweets_by_id issues a request after every 429 and after nothing
\* else: the first other response is the last, so the requests number the 429
\* responses plus one; a success response has its items yielded once, in
\* order, and the sequence ends; any other status raises with nothing yielded.
C39_OneRequestPlusRateLimits ==
    (op = "get_tweets_by_id" /\ pc # "start") =>
        /\ Len(requests) <= RateLimitedSoFar + 1
        /\ \A k \in 1 .. Last :
              Status(k) # 429 =>
                  /\ k = Last
                  /\ Len(requests) = k
                  /\ Len(requests) = RateLimitedSoFar + 1
                  /\ IF Status(k) = 200
                       THEN responses[k].resp.includes # None =>
                              /\ pc \in {"yield", "done", "cancelled"}
                              /\ yielded \o pending
                                   = Items(k, responses[k].resp.n)
                              /\ pc = "done" => pending = <<>>
                       ELSE pc = "raised" /\ yielded = <<>>

\* get_tweets_by_id was answered 429, repeated the request, received two
\* tweets, yielded both and ended, although the response carried a token.
C39_Witness ==
    /\ op = "get_tweets_by_id"
    /\ Last = 2
    /\ Status(1) = 429
    /\ Status(2) = 200
    /\ NextOf(2)[1] = "str"
    /\ yielded = Items(2, 2)
    /\ Len(requests) = 2
    /\ pc = "done"

====
